---- MODULE Spec2Model ----
(***************************************************************************)
(* A model of digistruct (src/src/lib.rs): a content-addressed store       *)
(* (Digistructor) whose get() reconstructs and verifies the bytes behind a *)
(* digest, and the SQLite hydration procedure of tests::sqlite::sqlite.    *)
(*                                                                         *)
(* Bytes are sequences over a small alphabet.  SHA-256 is modelled as a    *)
(* collision-free function: sha256(b) is the symbolic digest               *)
(* <<"sha256", b>>, so two digests are equal exactly when the hashed bytes *)
(* are; BadHash is a digest that is the hash of nothing (b"badhash").      *)
(***************************************************************************)
EXTENDS Naturals, Sequences, FiniteSets

VARIABLES
    graph,        \* Digistructor.graph: HashMap<Vec<u8>, Node>
    op,           \* the last operation called on the store, with its argument
    call,         \* what the last operation returned (res), the number of
                  \* sha256 invocations it made and the get() calls it entered
    adds,         \* number of add() calls so far
    tree,         \* tests::append: the composition tree being stored
    pending,      \* tests::append: the nodes of the tree not yet added
    data_leaves,  \* tests::sqlite: table data_leaves, digest -> data
    append_edges, \* tests::sqlite: table append_edges, in scan order
    target,       \* tests::sqlite: the digest the traversal starts from (?1)
    queue,        \* tests::sqlite: rows of branches not yet extracted
    edges,        \* tests::sqlite: temporary table edges, in rowid order
    phase         \* which procedure runs, and where it stands

vars == <<graph, op, call, adds, tree, pending,
          data_leaves, append_edges, target, queue, edges, phase>>

treeVars == <<tree, pending>>

loaderVars == <<data_leaves, append_edges, target, queue, edges>>

----------------------------------------------------------------------------
(* Bounds *)

NumSyms == 1      \* size of the byte alphabet of the store universe
MaxLen == 2       \* longest leaf data / hashed content of the store universe
MaxAdds == 3      \* add() calls in one behaviour
PieceSyms == 2    \* size of the byte alphabet of the pieces of a tree
MaxPieces == 4    \* leaves of a composition tree
MaxPieceLen == 1  \* longest piece of a composition tree
MaxEdgeRows == 3  \* rows of table append_edges
MaxFetch == 5     \* rows the recursive query extracts before it is cut off

SeqsUpTo(S, n) == UNION {[1..k -> S] : k \in 0..n}

Alphabet == 1..NumSyms
Data == SeqsUpTo(Alphabet, MaxLen)

----------------------------------------------------------------------------
(* Digests, nodes, errors *)

sha256(bytes) == <<"sha256", bytes>>

BadHash == <<"badhash">>

Digests == {BadHash} \cup {sha256(b) : b \in Data}

Leaf(digest, data) == [kind |-> "Raw", digest |-> digest, data |-> data]

AppendEdge(digest, left, right) ==
    [kind |-> "Append", digest |-> digest, left |-> left, right |-> right]

\* The digest taken over an empty buffer instead of the content.
rawEmptyDigest(content) == Leaf(sha256(<<>>), content)

raw(content) == Leaf(sha256(content), content)

Nodes ==
    {Leaf(d, b) : d \in Digests, b \in Data}
        \cup {AppendEdge(d, l, r) : d \in Digests, l \in Digests, r \in Digests}

Ok(content) == [kind |-> "Ok", content |-> content]

NotFound(digest) == [kind |-> "NotFound", digest |-> digest]

DigestMismatch(want, have) ==
    [kind |-> "DigestMismatch", want |-> want, have |-> have]

\* panic!("Map retrieved the wrong node ...")
Panic == [kind |-> "Panic"]

\* get() recursing without end: the call stack overflows and the process aborts
StackOverflow == [kind |-> "StackOverflow"]

Unit == [kind |-> "Unit"]

IsErr(res) == res.kind \in {"NotFound", "DigestMismatch"}

----------------------------------------------------------------------------
(* Digistructor *)

new == <<>>

NodeDigest(node) == node.digest

\* An edge filed under its left child's digest instead of its own.
addUnderLeft(g, node) ==
    LET dig == IF node.kind = "Append" THEN node.left ELSE node.digest
    IN  [d \in DOMAIN g \cup {dig} |-> IF d = dig THEN node ELSE g[d]]

add(g, node) ==
    LET dig == NodeDigest(node)
    IN  [d \in DOMAIN g \cup {dig} |-> IF d = dig THEN node ELSE g[d]]

check(g, want) == want \in DOMAIN g

Returned(res, hashes, trace) == [res |-> res, hashes |-> hashes, trace |-> trace]

\* A miss that hashes an empty buffer instead of returning at once.
MissAsEmpty(want) ==
    Returned(IF sha256(<<>>) # want
             THEN DigestMismatch(want, sha256(<<>>)) ELSE Ok(<<>>), 1, <<want>>)

\* None => return Err(Error::NotFound(want.clone()))
Miss(want) == Returned(NotFound(want), 0, <<want>>)

\* The comparison left out: whatever was reconstructed is returned.
VerifyNoCheck(want, content) == Ok(content)

\* The two fields of DigestMismatch in the wrong order.
VerifySwapped(want, content) ==
    LET computed_digest == sha256(content)
    IN  IF computed_digest # want
        THEN DigestMismatch(computed_digest, want)
        ELSE Ok(content)

\* The tail of get(): recompute the digest of the content and compare.
Verify(want, content) ==
    LET computed_digest == sha256(content)
    IN  IF computed_digest # want
        THEN DigestMismatch(want, computed_digest)
        ELSE Ok(content)

\* A child's error replaced by one naming the ancestor.
PropagateRenamed(want, child, hashes, trace) ==
    Returned(IF child.kind = "NotFound" THEN NotFound(want) ELSE child,
             hashes, trace)

\* The ? operator: the child's outcome is returned as it is.
Propagate(want, child, hashes, trace) == Returned(child, hashes, trace)

\* get(want) on store g.  stack holds the digests of the get() calls that are
\* still open: get is a deterministic read of an unchanged store, so entering
\* get(d) while get(d) is open repeats the same calls for ever, until the
\* call stack overflows.
RECURSIVE get(_, _, _)
get(g, want, stack) ==
    IF want \in stack THEN Returned(StackOverflow, 0, <<want>>)
    ELSE IF ~ check(g, want) THEN Miss(want)
    ELSE
    LET node == g[want]
    IN  IF want # NodeDigest(node) THEN Returned(Panic, 0, <<want>>)
        ELSE IF node.kind = "Raw"
        THEN Returned(Verify(want, node.data), 1, <<want>>)
        ELSE
        LET left == get(g, node.left, stack \cup {want})
        IN  IF left.res.kind # "Ok"
            THEN Propagate(want, left.res, left.hashes, <<want>> \o left.trace)
            ELSE
            LET right == get(g, node.right, stack \cup {want})
            IN  IF right.res.kind # "Ok"
                THEN Propagate(want, right.res, left.hashes + right.hashes,
                               <<want>> \o left.trace \o right.trace)
                ELSE Returned(Verify(want, left.res.content \o right.res.content),
                              left.hashes + right.hashes + 1,
                              <<want>> \o left.trace \o right.trace)

NoCall == Returned(Unit, 0, <<>>)

----------------------------------------------------------------------------
(* The store under arbitrary callers *)

NoTree == [t |-> "none"]

Fresh ==
    /\ graph = new
    /\ op = [name |-> "new"]
    /\ call = NoCall
    /\ adds = 0

NoTreeTest == tree = NoTree /\ pending = {}

NoLoader ==
    /\ data_leaves = <<>>
    /\ append_edges = <<>>
    /\ target = BadHash
    /\ queue = <<>>
    /\ edges = <<>>

Init ==
    /\ Fresh
    /\ NoTreeTest
    /\ NoLoader
    /\ phase = "store"

NoNode == [kind |-> "None"]

\* what HashMap::insert found under the key (add discards it)
Replaced(g, node) ==
    IF check(g, NodeDigest(node)) THEN g[NodeDigest(node)] ELSE NoNode

DoAdd(node) ==
    /\ graph' = add(graph, node)
    /\ op' = [name |-> "add", node |-> node, replaced |-> Replaced(graph, node)]
    /\ call' = NoCall
    /\ adds' = adds + 1

DoGet(want) ==
    /\ graph' = graph
    /\ op' = [name |-> "get", want |-> want]
    /\ call' = get(graph, want, {})
    /\ adds' = adds

Add(node) ==
    /\ adds < MaxAdds
    /\ DoAdd(node)
    /\ UNCHANGED <<treeVars, loaderVars, phase>>

Get(want) ==
    /\ DoGet(want)
    /\ UNCHANGED <<treeVars, loaderVars, phase>>

Next ==
    \/ \E node \in Nodes : Add(node)
    \/ \E want \in Digests : Get(want)

Spec == Init /\ [][Next]_vars

----------------------------------------------------------------------------
(* Properties of the store *)

Got == op.name = "get"

Stored(d) == graph[d]

Resolve(d) == get(graph, d, {})

IllFormedLeaf(d) ==
    /\ check(graph, d)
    /\ Stored(d).kind = "Raw"
    /\ sha256(Stored(d).data) # d

\* C1: whenever get(want) returns Ok(content), sha256(content) = want,
\* whatever nodes (ill-formed ones, overwrites) the store holds.
C1_Integrity ==
    (Got /\ call.res.kind = "Ok") => sha256(call.res.content) = op.want

\* get answered Ok through an Append edge in a store that also holds a leaf
\* whose declared digest is wrong.
C1_Witness ==
    /\ Got
    /\ call.res.kind = "Ok"
    /\ Stored(op.want).kind = "Append"
    /\ \E d \in DOMAIN graph : IllFormedLeaf(d)

\* C2: when the node stored under raw(b).digest is Node::Raw(raw(b)),
\* get(raw(b).digest) returns Ok(b), for every b and every other content of
\* the store.
C2_LeafRoundTrip ==
    \A b \in Data :
        (/\ Got
         /\ op.want = raw(b).digest
         /\ check(graph, op.want)
         /\ Stored(op.want) = raw(b))
            => call.res = Ok(b)

\* raw(b) for a non-empty b was read back from a store holding two other nodes.
C2_Witness ==
    /\ Got
    /\ \E b \in Data \ {<<>>} :
        /\ op.want = raw(b).digest
        /\ check(graph, op.want)
        /\ Stored(op.want) = raw(b)
        /\ call.res = Ok(b)
    /\ Cardinality(DOMAIN graph) = MaxAdds

\* C3: a leaf under want whose data does not hash to want, or an Append edge
\* under want whose children both resolve but whose concatenation does not
\* hash to want, makes get(want) return DigestMismatch(want, have) with have
\* the hash of the reconstructed content.
C3_MismatchExact ==
    (Got /\ check(graph, op.want)) =>
        LET node == Stored(op.want)
        IN  /\ (node.kind = "Raw" /\ sha256(node.data) # op.want)
                    => call.res = DigestMismatch(op.want, sha256(node.data))
            /\ node.kind = "Append" =>
                LET l == Resolve(node.left).res
                    r == Resolve(node.right).res
                IN  (/\ l.kind = "Ok"
                     /\ r.kind = "Ok"
                     /\ sha256(l.content \o r.content) # op.want)
                        => call.res = DigestMismatch(
                                op.want, sha256(l.content \o r.content))

\* An edge with a wrong declared digest over two leaves that resolve.
C3_Witness ==
    /\ Got
    /\ check(graph, op.want)
    /\ Stored(op.want).kind = "Append"
    /\ Resolve(Stored(op.want).left).res.kind = "Ok"
    /\ Resolve(Stored(op.want).right).res.kind = "Ok"
    /\ Resolve(Stored(op.want).left).res.content # <<>>
    /\ call.res.kind = "DigestMismatch"

\* C4: get(d) for a digest d with no node registered returns NotFound(d),
\* having computed no hash, entered no other call, and not panicked.
C4_MissingData ==
    (Got /\ ~ check(graph, op.want)) =>
        call = Returned(NotFound(op.want), 0, <<op.want>>)

\* A miss in a store that holds nodes.
C4_Witness ==
    /\ Got
    /\ ~ check(graph, op.want)
    /\ graph # new
    /\ call.res = NotFound(op.want)

\* C5: for an Append edge under want, an error of get(left) is what
\* get(want) returns and get(right) is not entered; with get(left) Ok, an
\* error of get(right) is what get(want) returns.
C5_ErrorPropagation ==
    (Got /\ check(graph, op.want) /\ Stored(op.want).kind = "Append") =>
        LET node == Stored(op.want)
            l == Resolve(node.left)
            r == Resolve(node.right)
        IN  /\ IsErr(l.res) =>
                /\ call.res = l.res
                /\ call.trace = <<op.want>> \o l.trace
            /\ (l.res.kind = "Ok" /\ IsErr(r.res)) =>
                /\ call.res = r.res
                /\ call.trace = <<op.want>> \o l.trace \o r.trace

\* The left child resolved and the right child failed with an error naming
\* the right child, not the requested edge.
C5_Witness ==
    /\ Got
    /\ check(graph, op.want)
    /\ Stored(op.want).kind = "Append"
    /\ Resolve(Stored(op.want).left).res.kind = "Ok"
    /\ IsErr(call.res)
    /\ call.res = Resolve(Stored(op.want).right).res
    /\ Stored(op.want).right # op.want

\* What one step does to the store: add(node) files node under its own
\* digest and touches nothing else; nothing is ever removed.
StoreStep ==
    LET added == op'.name = "add"
    IN  /\ DOMAIN graph \subseteq DOMAIN graph'
        /\ \A d \in DOMAIN graph' :
            IF added /\ NodeDigest(op'.node) = d
            THEN graph'[d] = op'.node
            ELSE d \in DOMAIN graph /\ graph'[d] = graph[d]

KeysAreDigests == \A d \in DOMAIN graph : NodeDigest(Stored(d)) = d

\* C9: the store maps each digest to the node most recently added with that
\* declared digest and to nothing otherwise, so every key is its node's own
\* digest and get never panics.
C9_StoreKey ==
    /\ [](KeysAreDigests /\ call.res.kind # "Panic")
    /\ [][StoreStep]_vars

\* An add that overwrote a different node filed under the same digest, in a
\* store that holds another node as well.
C9_Witness ==
    /\ op.name = "add"
    /\ op.replaced # NoNode
    /\ op.replaced # op.node
    /\ Stored(NodeDigest(op.node)) = op.node
    /\ Cardinality(DOMAIN graph) > 1

Children(g, d) ==
    IF check(g, d) /\ g[d].kind = "Append" THEN {g[d].left, g[d].right} ELSE {}

RECURSIVE Below(_, _, _)
Below(g, frontier, seen) ==
    LET next == (UNION {Children(g, d) : d \in frontier}) \ seen
    IN  IF next = {} THEN seen ELSE Below(g, next, seen \cup next)

\* the digests d depends on, directly or transitively
Descendants(g, d) == Below(g, {d}, {})

Acyclic(g) == \A d \in DOMAIN g : d \notin Descendants(g, d)

\* C10: every reachable store is acyclic and every get(want) terminates
\* with bytes or an error.
C10_AcyclicTerminates ==
    Got => /\ Acyclic(graph)
           /\ call.res.kind \in {"Ok", "NotFound", "DigestMismatch"}

----------------------------------------------------------------------------
(* tests::append: a composition tree is stored node by node and its root    *)
(* digest is resolved.                                                      *)

PieceAlphabet == 1..PieceSyms
Pieces == SeqsUpTo(PieceAlphabet, MaxPieceLen)

TreeLeaf(data) == [t |-> "leaf", data |-> data]
TreeEdge(l, r) == [t |-> "edge", l |-> l, r |-> r]

\* every binary tree whose leaves, left to right, are the pieces
RECURSIVE TreesOver(_)
TreesOver(pieces) ==
    IF Len(pieces) = 1 THEN {TreeLeaf(pieces[1])}
    ELSE UNION {
        {TreeEdge(l, r) :
            l \in TreesOver(SubSeq(pieces, 1, k)),
            r \in TreesOver(SubSeq(pieces, k + 1, Len(pieces)))}
        : k \in 1..(Len(pieces) - 1)}

\* the bytes a tree stands for
RECURSIVE Content(_)
Content(t) ==
    IF t.t = "leaf" THEN t.data ELSE Content(t.l) \o Content(t.r)

\* The nodes the tests build for a tree: raw(piece) for a leaf, and for an
\* edge the digest of the concatenated bytes with its children's digests.
RECURSIVE TreeNodes(_)
TreeNodes(t) ==
    IF t.t = "leaf" THEN {raw(t.data)}
    ELSE {AppendEdge(sha256(Content(t)),
                     sha256(Content(t.l)), sha256(Content(t.r)))}
            \cup TreeNodes(t.l) \cup TreeNodes(t.r)

InitTree ==
    /\ Fresh
    /\ NoLoader
    /\ phase = "tree"
    /\ \E n \in 1..MaxPieces : \E pieces \in [1..n -> Pieces] :
            tree \in TreesOver(pieces)
    /\ pending = TreeNodes(tree)

TreeAdd(node) ==
    /\ node \in pending
    /\ DoAdd(node)
    /\ pending' = pending \ {node}
    /\ UNCHANGED <<tree, loaderVars, phase>>

TreeGet ==
    /\ pending = {}
    /\ op.name # "get"
    /\ DoGet(sha256(Content(tree)))
    /\ UNCHANGED <<treeVars, loaderVars, phase>>

NextTree ==
    \/ \E node \in pending : TreeAdd(node)
    \/ TreeGet

SpecTree == InitTree /\ [][NextTree]_vars

\* C6: once every node of a composition tree over the pieces of s is added,
\* get(sha256(s)) returns Ok(s), whatever the shape of the tree.
C6_ShapeIndependence ==
    (phase = "tree" /\ Got) => call.res = Ok(Content(tree))

RECURSIVE NoEmptyPiece(_)
NoEmptyPiece(t) ==
    IF t.t = "leaf" THEN t.data # <<>>
    ELSE NoEmptyPiece(t.l) /\ NoEmptyPiece(t.r)

\* The same statement for trees none of whose pieces is empty.
ShapeIndependenceNonEmpty ==
    (phase = "tree" /\ Got /\ NoEmptyPiece(tree)) => call.res = Ok(Content(tree))

----------------------------------------------------------------------------
(* tests::sqlite: the nodes needed for one target digest are read from the  *)
(* tables data_leaves and append_edges into a fresh store, and the target   *)
(* is resolved.                                                             *)

Row(digest, left, right) == [digest |-> digest, left |-> left, right |-> right]

TableDigests == {sha256(b) : b \in Data}

Rows == {Row(d, l, r) : d \in TableDigests, l \in TableDigests, r \in TableDigests}

\* sequences without repetition: PRIMARY KEY(digest, left, right)
Tables(n) ==
    {t \in [1..n -> Rows] : \A i \in 1..n : \A j \in 1..n : t[i] = t[j] => i = j}

InLeaves(digest) == digest \in DOMAIN data_leaves

\* The initial select of branches: the target's own edge rows, dropped when a
\* leaf row has the target's digest.
Roots ==
    LET Keep(child) == child.digest = target /\ ~ InLeaves(child.digest)
    IN  SelectSeq(append_edges, Keep)

\* The recursive select without its WHERE clause.
ExpandUnpruned(parent) ==
    LET Keep(child) == child.digest \in {parent.left, parent.right}
    IN  SelectSeq(append_edges, Keep)

\* The recursive select for one extracted row of branches: the edge rows of
\* its left and right, dropped when a leaf row has the parent's digest.
Expand(parent) ==
    LET Keep(child) ==
            /\ child.digest \in {parent.left, parent.right}
            /\ ~ InLeaves(parent.digest)
    IN  SelectSeq(append_edges, Keep)

\* for n in edges { ... ds.add(Node::Append(edge)); }
RECURSIVE AddEdges(_, _)
AddEdges(g, rows) ==
    IF rows = <<>> THEN g
    ELSE AddEdges(add(g, AppendEdge(Head(rows).digest, Head(rows).left,
                                    Head(rows).right)),
                  Tail(rows))

Range(f) == {f[i] : i \in DOMAIN f}

\* find_leaves: the leaf rows whose digest is the digest, left or right of a
\* row of edges
FoundLeaves ==
    {d \in DOMAIN data_leaves :
        \E e \in Range(edges) : d \in {e.digest, e.left, e.right}}

\* for n in leaves { ds.add(Node::Raw(n?)); } -- the digests are distinct
\* (digest is the primary key), so the order of the rows does not matter
RECURSIVE AddLeaves(_, _)
AddLeaves(g, digests) ==
    IF digests = {} THEN g
    ELSE LET d == CHOOSE x \in digests : TRUE
         IN  AddLeaves(add(g, Leaf(d, data_leaves[d])), digests \ {d})

InitLoader ==
    /\ Fresh
    /\ NoTreeTest
    /\ \E have \in SUBSET Data :
            data_leaves = [d \in {raw(b).digest : b \in have} |->
                            (CHOOSE b \in have : raw(b).digest = d)]
    /\ \E n \in 0..MaxEdgeRows : append_edges \in Tables(n)
    /\ target \in TableDigests
    /\ queue = <<>>
    /\ edges = <<>>
    /\ phase = "query"

\* the initial select fills the queue
Seed ==
    /\ phase = "query"
    /\ queue' = Roots
    /\ phase' = "recurse"
    /\ UNCHANGED <<graph, op, call, adds, treeVars,
                   data_leaves, append_edges, target, edges>>

\* one row leaves the queue for the result, and the recursive select runs
\* with it as the only row of branches (UNION ALL: nothing is dropped as a
\* duplicate)
Extract ==
    /\ phase = "recurse"
    /\ queue # <<>>
    /\ Len(edges) < MaxFetch
    /\ edges' = Append(edges, Head(queue))
    /\ queue' = Tail(queue) \o Expand(Head(queue))
    /\ UNCHANGED <<graph, op, call, adds, treeVars,
                   data_leaves, append_edges, target, phase>>

\* The query is over: the rows of edges are added to a new store.  (The
\* test also collects the digests, lefts and rights in digs and filters
\* them by ds.check into values; neither is read again.)
LoadEdges ==
    /\ phase = "recurse"
    /\ queue = <<>>
    /\ graph' = AddEdges(new, edges)
    /\ adds' = adds + Len(edges)
    /\ phase' = "edges"
    /\ UNCHANGED <<op, call, treeVars, loaderVars>>

LoadLeaves ==
    /\ phase = "edges"
    /\ graph' = AddLeaves(graph, FoundLeaves)
    /\ adds' = adds + Cardinality(FoundLeaves)
    /\ phase' = "leaves"
    /\ UNCHANGED <<op, call, treeVars, loaderVars>>

LoadGet ==
    /\ phase = "leaves"
    /\ DoGet(target)
    /\ phase' = "done"
    /\ UNCHANGED <<treeVars, loaderVars>>

NextLoader ==
    \/ Seed
    \/ Extract
    \/ LoadEdges
    \/ LoadLeaves
    \/ LoadGet

SpecLoader == InitLoader /\ [][NextLoader]_vars

LeafDigests == DOMAIN data_leaves

EdgeRows == Range(append_edges)

\* a leaf row's digest is the hash of its data; an edge row's digest is the
\* hash of the bytes of its left followed by the bytes of its right
WellFormedRows ==
    /\ \A d \in LeafDigests : d = sha256(data_leaves[d])
    /\ \A e \in EdgeRows :
        \E x \in Data : \E y \in Data :
            /\ e.left = sha256(x)
            /\ e.right = sha256(y)
            /\ e.digest = sha256(x \o y)

\* the digests that the rows can resolve: leaf rows, and edge rows whose
\* children are resolvable
RECURSIVE ResolvableFrom(_)
ResolvableFrom(known) ==
    LET more == {e.digest : e \in {e \in EdgeRows :
                                    e.left \in known /\ e.right \in known}}
    IN  IF more \subseteq known THEN known ELSE ResolvableFrom(known \cup more)

Resolvable == ResolvableFrom(LeafDigests)

\* C7: when every row is well-formed and the target is resolvable from the
\* rows, hydration followed by get(target) returns the target's bytes.
C7_LoaderComplete ==
    (phase = "done" /\ WellFormedRows /\ target \in Resolvable) =>
        \E b \in Data : target = sha256(b) /\ call.res = Ok(b)

Fetched == edges \o queue

Base(r) == r.digest = target /\ ~ InLeaves(target)

Parent(p, r) == r.digest \in {p.left, p.right} /\ ~ InLeaves(p.digest)

\* the edge rows an unpruned path leads to from the target
RECURSIVE Unpruned(_)
Unpruned(rows) ==
    LET more == {r \in EdgeRows : \E p \in rows : Parent(p, r)}
    IN  IF more \subseteq rows THEN rows ELSE Unpruned(rows \cup more)

StoredEdges == {graph[d] : d \in {d \in DOMAIN graph : graph[d].kind = "Append"}}

\* C8: a fetched edge row is the target's own row, the target not being a
\* leaf, or a child of a row fetched before it whose digest is in no leaf
\* row; so no edge row that only paths through a leaf-covered digest lead to
\* is fetched or added to the store.
C8_LoaderPruning ==
    phase # "query" =>
        /\ \A i \in 1..Len(Fetched) :
            /\ Fetched[i] \in EdgeRows
            /\ \/ Base(Fetched[i])
               \/ \E j \in 1..(i - 1) : Parent(Fetched[j], Fetched[i])
        /\ Range(Fetched) \subseteq Unpruned({r \in EdgeRows : Base(r)})
        /\ \A n \in StoredEdges :
            Row(n.digest, n.left, n.right)
                \in Unpruned({r \in EdgeRows : Base(r)})

\* The traversal reached an edge row whose digest a leaf row covers, fetched
\* it, and left an edge row below it in the table.
C8_Witness ==
    /\ phase = "done"
    /\ \E p \in Range(edges) :
        /\ InLeaves(p.digest)
        /\ p.digest # target
        /\ \E r \in EdgeRows :
            /\ r.digest \in {p.left, p.right}
            /\ r \notin Range(edges)

====
